---- MODULE Spec2Model ----
(***************************************************************************)
(* Model of app/main.py: a FastAPI application registry of fourteen GET    *)
(* routes, the framework's dispatch of a request to the first matching     *)
(* route, the validation of the declared path and query parameters, and    *)
(* the handler bodies.                                                     *)
(*                                                                         *)
(* A request path is a sequence of tokens in which every "/" is a token of *)
(* its own: /users/me is <<"/", "users", "/", "me">>.  A path template is  *)
(* a sequence of literal tokens and parameter tokens.                      *)
(***************************************************************************)
EXTENDS Integers, Sequences, FiniteSets, TLC

VARIABLES fake_items_db, phase, request, response, invoked, args

vars == <<fake_items_db, phase, request, response, invoked, args>>

\* ---------------------------------------------------------------- bounds

\* The largest number of segments of a generated request path.
MaxSegs == 4

\* ------------------------------------------------------------- utilities

Min(a, b) == IF a < b THEN a ELSE b

Max(a, b) == IF a < b THEN b ELSE a

\* Python's None, and a value held by a parameter whose default is None.
None == <<>>

Some(v) == <<v>>

\* Python's s[lo:hi] on a list: negative indexes count from the end, and
\* both ends are clamped to the list.
PySlice(s, lo, hi) ==
  LET n == Len(s)
      Clamp(i) == IF i < 0 THEN Max(i + n, 0) ELSE Min(i, n)
  IN  SubSeq(s, Clamp(lo) + 1, Clamp(hi))

\* ------------------------------------------------------- path templates

Lit(s) == [kind |-> "lit", name |-> s]

\* {name}: one non-empty segment without "/"  (regex [^/]+).
Param(n) == [kind |-> "str", name |-> n]

\* {name:path}: the rest of the path, "/" included  (regex .*).
PathParam(n) == [kind |-> "path", name |-> n]

Slash == Lit("/")

NoMatch == [ok |-> FALSE, params |-> <<>>]

\* The full match (^...$) of a request path against a compiled template;
\* params binds each template parameter to the text it matched.
RECURSIVE MatchTemplate(_, _)
MatchTemplate(tpl, path) ==
  IF tpl = <<>> THEN [ok |-> path = <<>>, params |-> <<>>]
  ELSE
    LET t == Head(tpl) IN
    CASE t.kind = "lit" ->
           IF path # <<>> /\ Head(path) = t.name
           THEN MatchTemplate(Tail(tpl), Tail(path))
           ELSE NoMatch
      [] t.kind = "str" ->
           IF path # <<>> /\ Head(path) # "/"
           THEN LET r == MatchTemplate(Tail(tpl), Tail(path))
                IN  IF r.ok
                    THEN [ok |-> TRUE, params |-> (t.name :> Head(path)) @@ r.params]
                    ELSE NoMatch
           ELSE NoMatch
      [] t.kind = "path" ->
           LET Fits(k) == MatchTemplate(Tail(tpl), SubSeq(path, k + 1, Len(path))).ok
               ks == {k \in 0..Len(path) : Fits(k)}
           IN  IF ks = {} THEN NoMatch
               ELSE LET k == CHOOSE x \in ks : \A y \in ks : y <= x
                        r == MatchTemplate(Tail(tpl), SubSeq(path, k + 1, Len(path)))
                    IN  [ok |-> TRUE,
                         params |-> (t.name :> SubSeq(path, 1, k)) @@ r.params]

\* ------------------------------------------------------- route registry

\* One registered route: the compiled path template and the endpoint.  The
\* three functions the source names read_item are told apart by the line of
\* their def.
Route(tpl, endpoint) == [template |-> tpl, endpoint |-> endpoint]

Route_read_root == Route(<<Slash>>, "read_root")

Route_read_item_L17 ==
  Route(<<Slash, Lit("items"), Slash, Param("item_id")>>, "read_item_L17")

Route_read_current_user ==
  Route(<<Slash, Lit("users"), Slash, Lit("me")>>, "read_current_user")

Route_read_user ==
  Route(<<Slash, Lit("users"), Slash, Param("user")>>, "read_user")

Route_get_allUsers == Route(<<Slash, Lit("users")>>, "get_allUsers")

Route_get_users == Route(<<Slash, Lit("users")>>, "get_users")

Route_get_model ==
  Route(<<Slash, Lit("models"), Slash, Param("model_name")>>, "get_model")

\* Registered as "file/{file_path:path}": the template has no leading "/".
Route_read_file ==
  Route(<<Lit("file"), Slash, PathParam("file_path")>>, "read_file")

Route_read_item_L79 ==
  Route(<<Slash, Lit("items"), Slash>>, "read_item_L79")

Route_read_optional_items ==
  Route(<<Slash, Lit("items"), Slash, Lit("optional"), Slash>>,
        "read_optional_items")

Route_read_item_L98 ==
  Route(<<Slash, Lit("items"), Slash, Lit("optional"), Slash, Param("item_id")>>,
        "read_item_L98")

Route_read_bool_item ==
  Route(<<Slash, Lit("items"), Slash, Lit("bool"), Slash, Param("item_id")>>,
        "read_bool_item")

Route_read_user_item ==
  Route(<<Slash, Lit("users"), Slash, Param("user_id"), Slash, Lit("items"),
          Slash, Param("item_id")>>, "read_user_item")

Route_read_required_item ==
  Route(<<Slash, Lit("item"), Slash, Lit("required"), Slash, Param("item_id"),
          Slash>>, "read_required_item")

\* The registry had /users/{user} been declared before /users/me.
routes_user_before_me ==
  << Route_read_root, Route_read_item_L17, Route_read_user,
     Route_read_current_user, Route_get_allUsers, Route_get_users,
     Route_get_model, Route_read_file, Route_read_item_L79,
     Route_read_optional_items, Route_read_item_L98, Route_read_bool_item,
     Route_read_user_item, Route_read_required_item >>

\* The registry had get_users been declared before get_allUsers.
routes_get_users_first ==
  << Route_read_root, Route_read_item_L17, Route_read_current_user,
     Route_read_user, Route_get_users, Route_get_allUsers, Route_get_model,
     Route_read_file, Route_read_item_L79, Route_read_optional_items,
     Route_read_item_L98, Route_read_bool_item, Route_read_user_item,
     Route_read_required_item >>

\* app.router.routes, in the order the decorators run.
routes ==
  << Route_read_root, Route_read_item_L17, Route_read_current_user,
     Route_read_user, Route_get_allUsers, Route_get_users, Route_get_model,
     Route_read_file, Route_read_item_L79, Route_read_optional_items,
     Route_read_item_L98, Route_read_bool_item, Route_read_user_item,
     Route_read_required_item >>

\* The indexes of the routes whose template matches the path.
Matching(path) ==
  {i \in 1..Len(routes) : MatchTemplate(routes[i].template, path).ok}

\* The first matching route in registration order; 0 when none matches.
FirstMatch(path) ==
  IF Matching(path) = {} THEN 0
  ELSE CHOOSE i \in Matching(path) : \A j \in Matching(path) : i <= j

\* The path with its trailing slash removed, or added when it has none.
ToggleSlash(path) ==
  IF path[Len(path)] = "/" THEN SubSeq(path, 1, Len(path) - 1)
  ELSE Append(path, "/")

\* redirect_slashes: an unmatched path other than "/" whose toggled form
\* matches some route is redirected to it.
RedirectsSlash(path) ==
  /\ path # <<"/">>
  /\ Matching(ToggleSlash(path)) # {}

\* ----------------------------------------------------------- conversions

\* The decimal texts the model's requests carry, with the integers they
\* denote.
IntLiterals ==
  { <<"-2", -2>>, <<"-1", -1>>, <<"0", 0>>, <<"1", 1>>, <<"2", 2>>, <<"3", 3>>,
    <<"5", 5>>, <<"10", 10>> }

IsIntText(s) == \E p \in IntLiterals : p[1] = s

ParseInt(s) == (CHOOSE p \in IntLiterals : p[1] = s)[2]

\* str.lower() on the texts the model's requests carry.
Lower(s) ==
  CASE s \in {"True", "TRUE", "tRuE"} -> "true"
    [] s \in {"Yes", "YES"} -> "yes"
    [] s \in {"On", "ON"} -> "on"
    [] s \in {"False", "FALSE"} -> "false"
    [] s \in {"No", "NO"} -> "no"
    [] s \in {"Off", "OFF"} -> "off"
    [] s = "T" -> "t"
    [] s = "Y" -> "y"
    [] s = "F" -> "f"
    [] s = "N" -> "n"
    [] s = "Maybe" -> "maybe"
    [] OTHER -> s

BoolTrueTexts == {"1", "on", "t", "true", "y", "yes"}

BoolFalseTexts == {"0", "off", "f", "false", "n", "no"}

IsBoolText(s) == Lower(s) \in BoolTrueTexts \cup BoolFalseTexts

\* A conversion to bool that compares without lowering the text.
ParseBool_case_sensitive(s) == s \in BoolTrueTexts

\* The conversion of a query text to bool: case-insensitive.
ParseBool(s) == Lower(s) \in BoolTrueTexts

\* class ModelName(str, Enum): each member has a name and a string value.
ModelName_alfa == [name |-> "alfa", value |-> "Alfa"]

ModelName_beta == [name |-> "beta", value |-> "Beta"]

ModelName_gamma == [name |-> "gamma", value |-> "Gamma"]

ModelName == {ModelName_alfa, ModelName_beta, ModelName_gamma}

\* An enum parameter is looked up by value.
IsModelNameText(s) == \E m \in ModelName : m.value = s

ParseModelName(s) == CHOOSE m \in ModelName : m.value = s

\* Whether the raw text is valid for the declared type.
Valid(type, raw) ==
  CASE type = "int" -> IsIntText(raw)
    [] type = "bool" -> IsBoolText(raw)
    [] type = "ModelName" -> IsModelNameText(raw)
    [] OTHER -> TRUE

\* The value the handler receives for a valid raw text.
Convert(type, raw) ==
  CASE type = "int" -> ParseInt(raw)
    [] type = "bool" -> ParseBool(raw)
    [] type = "ModelName" -> ParseModelName(raw)
    [] OTHER -> raw

\* ------------------------------------------------- endpoint signatures

\* One declared parameter of an endpoint: where it is read from, its type,
\* whether it is required, and the default the handler receives when it is
\* not supplied.  A parameter whose default is None holds None or Some(v).
P(name, loc, type, required, optional, default) ==
  [name |-> name, loc |-> loc, type |-> type, required |-> required,
   optional |-> optional, default |-> default]

Sig_read_root == <<>>

Sig_read_item_L17 == << P("item_id", "path", "int", TRUE, FALSE, None) >>

Sig_read_current_user == <<>>

Sig_read_user == << P("user", "path", "str", TRUE, FALSE, None) >>

Sig_get_allUsers == <<>>

Sig_get_users == <<>>

Sig_get_model == << P("model_name", "path", "ModelName", TRUE, FALSE, None) >>

Sig_read_file == << P("file_path", "path", "str", TRUE, FALSE, None) >>

Sig_read_item_L79 ==
  << P("skip", "query", "int", FALSE, FALSE, 0),
     P("limit", "query", "int", FALSE, FALSE, 10) >>

Sig_read_optional_items ==
  << P("skip", "query", "int", FALSE, TRUE, None),
     P("limit", "query", "int", FALSE, FALSE, 10) >>

Sig_read_item_L98 ==
  << P("item_id", "path", "str", TRUE, FALSE, None),
     P("q", "query", "str", FALSE, TRUE, None) >>

Sig_read_bool_item ==
  << P("item_id", "path", "str", TRUE, FALSE, None),
     P("q", "query", "str", FALSE, TRUE, None),
     P("short", "query", "bool", FALSE, FALSE, FALSE) >>

Sig_read_user_item ==
  << P("user_id", "path", "int", TRUE, FALSE, None),
     P("item_id", "path", "str", TRUE, FALSE, None),
     P("q", "query", "str", FALSE, TRUE, None),
     P("short", "query", "bool", FALSE, FALSE, FALSE) >>

\* The signature had needy been declared with a default of None.
Sig_read_required_item_needy_optional ==
  << P("item_id", "path", "int", TRUE, FALSE, None),
     P("needy", "query", "str", FALSE, TRUE, None) >>

Sig_read_required_item ==
  << P("item_id", "path", "int", TRUE, FALSE, None),
     P("needy", "query", "str", TRUE, FALSE, None) >>

Sig(endpoint) ==
  CASE endpoint = "read_root" -> Sig_read_root
    [] endpoint = "read_item_L17" -> Sig_read_item_L17
    [] endpoint = "read_current_user" -> Sig_read_current_user
    [] endpoint = "read_user" -> Sig_read_user
    [] endpoint = "get_allUsers" -> Sig_get_allUsers
    [] endpoint = "get_users" -> Sig_get_users
    [] endpoint = "get_model" -> Sig_get_model
    [] endpoint = "read_file" -> Sig_read_file
    [] endpoint = "read_item_L79" -> Sig_read_item_L79
    [] endpoint = "read_optional_items" -> Sig_read_optional_items
    [] endpoint = "read_item_L98" -> Sig_read_item_L98
    [] endpoint = "read_bool_item" -> Sig_read_bool_item
    [] endpoint = "read_user_item" -> Sig_read_user_item
    [] endpoint = "read_required_item" -> Sig_read_required_item

\* The names of the query parameters an endpoint declares.
QueryKeys(endpoint) ==
  {Sig(endpoint)[i].name : i \in {j \in DOMAIN Sig(endpoint) :
                                     Sig(endpoint)[j].loc = "query"}}

\* ------------------------------------------------ parameter validation

Supplied(p, pathParams, query) ==
  IF p.loc = "path" THEN p.name \in DOMAIN pathParams
  ELSE p.name \in DOMAIN query

Raw(p, pathParams, query) ==
  IF p.loc = "path" THEN pathParams[p.name] ELSE query[p.name]

\* The names of the parameters that fail validation: a required one that is
\* missing, or a supplied one whose text is not valid for its type.
Errors(sig, pathParams, query) ==
  {sig[i].name : i \in {j \in DOMAIN sig :
      IF Supplied(sig[j], pathParams, query)
      THEN ~Valid(sig[j].type, Raw(sig[j], pathParams, query))
      ELSE sig[j].required}}

\* The keyword arguments the handler is called with.
Values(sig, pathParams, query) ==
  LET ByName(n) == sig[CHOOSE i \in DOMAIN sig : sig[i].name = n]
      Value(p) ==
        IF Supplied(p, pathParams, query)
        THEN LET v == Convert(p.type, Raw(p, pathParams, query))
             IN  IF p.optional THEN Some(v) ELSE v
        ELSE p.default
  IN  [n \in {sig[i].name : i \in DOMAIN sig} |-> Value(ByName(n))]

\* -------------------------------------------------------------- handlers

\* fake_items_db as the module creates it.
InitialDb ==
  << [item_name |-> "Foo"], [item_name |-> "Bar"], [item_name |-> "Baz"] >>

\* What a handler leaves behind: the returned body and the module-level
\* list after the call.
Result(body, db) == [body |-> body, db |-> db]

\* Python truthiness of a str | None argument.
Truthy(q) == q # None /\ q[1] # ""

read_root(db) == Result("message" :> "Hello world!", db)

read_item_L17(item_id, db) == Result("item id" :> item_id, db)

read_current_user(db) == Result("current user" :> "me", db)

read_user(user, db) == Result("user" :> user, db)

get_allUsers(db) == Result("all users" :> "users", db)

get_users(db) == Result("all users 2" :> "users", db)

get_model(model_name, db) ==
  IF model_name = ModelName_alfa
  THEN Result(("model_name" :> model_name.value) @@ ("message" :> "Alfa model"), db)
  ELSE IF model_name.value = "beta"
  THEN Result(("model_name" :> model_name.value) @@ ("message" :> "Beta model"), db)
  ELSE Result(("model_name" :> model_name.value) @@ ("message" :> "Gamma model"), db)

read_file(file_path, db) == Result("file_path" :> file_path, db)

\* The handler had it sliced [skip : limit] instead of [skip : skip + limit].
read_item_L79_limit_as_end(skip, limit, db) == Result(PySlice(db, skip, limit), db)

\* The handler had it removed the returned items from the list.
read_item_L79_popping(skip, limit, db) ==
  LET n == Len(db)
      lo == IF skip < 0 THEN Max(skip + n, 0) ELSE Min(skip, n)
      hi == Max(lo, IF skip + limit < 0 THEN Max(skip + limit + n, 0)
                    ELSE Min(skip + limit, n))
  IN  Result(SubSeq(db, lo + 1, hi), SubSeq(db, 1, lo) \o SubSeq(db, hi + 1, n))

read_item_L79(skip, limit, db) == Result(PySlice(db, skip, skip + limit), db)

\* The handler had it tested the truthiness of skip instead of "is not None".
read_optional_items_truthy(skip, limit, db) ==
  IF skip # None /\ skip[1] # 0
  THEN Result(PySlice(db, skip[1], skip[1] + limit), db)
  ELSE Result(db, db)

read_optional_items(skip, limit, db) ==
  IF skip # None
  THEN Result(PySlice(db, skip[1], skip[1] + limit), db)
  ELSE Result(db, db)

read_item_L98(item_id, q, db) ==
  IF Truthy(q)
  THEN Result(("item_id" :> item_id) @@ ("q" :> q[1]), db)
  ELSE Result("item_id" :> item_id, db)

\* dict.update: the keys of upd replace or extend those of d.
Update(d, upd) == upd @@ d

read_bool_item(item_id, q, short, db) ==
  LET item0 == ("item_id" :> item_id)
      item1 == IF Truthy(q) THEN Update(item0, "q" :> q[1]) ELSE item0
      item2 == IF short
               THEN Update(item1, "desciption" :> "The description of the item is short")
               ELSE item1
      item3 == IF ~short
               THEN Update(item2, "desciption" :> "The description of the item is long")
               ELSE item2
  IN  Result(item3, db)

read_user_item(user_id, item_id, q, short, db) ==
  LET user0 == ("user_id" :> user_id) @@ ("item_id" :> item_id)
      user1 == IF Truthy(q) THEN Update(user0, "q" :> q[1]) ELSE user0
      user2 == IF short
               THEN Update(user1, "desciption" :> "The description of the item is short")
               ELSE user1
      user3 == IF ~short
               THEN Update(user2, "desciption" :> "The description of the item is long")
               ELSE user2
  IN  Result(user3, db)

read_required_item(item_id, needy, db) ==
  Result(("item" :> item_id) @@ ("needy" :> needy), db)

\* The call of an endpoint with its validated keyword arguments.
Call(endpoint, a, db) ==
  CASE endpoint = "read_root" -> read_root(db)
    [] endpoint = "read_item_L17" -> read_item_L17(a["item_id"], db)
    [] endpoint = "read_current_user" -> read_current_user(db)
    [] endpoint = "read_user" -> read_user(a["user"], db)
    [] endpoint = "get_allUsers" -> get_allUsers(db)
    [] endpoint = "get_users" -> get_users(db)
    [] endpoint = "get_model" -> get_model(a["model_name"], db)
    [] endpoint = "read_file" -> read_file(a["file_path"], db)
    [] endpoint = "read_item_L79" -> read_item_L79(a["skip"], a["limit"], db)
    [] endpoint = "read_optional_items" ->
         read_optional_items(a["skip"], a["limit"], db)
    [] endpoint = "read_item_L98" -> read_item_L98(a["item_id"], a["q"], db)
    [] endpoint = "read_bool_item" ->
         read_bool_item(a["item_id"], a["q"], a["short"], db)
    [] endpoint = "read_user_item" ->
         read_user_item(a["user_id"], a["item_id"], a["q"], a["short"], db)
    [] endpoint = "read_required_item" ->
         read_required_item(a["item_id"], a["needy"], db)

\* -------------------------------------------------------------- dispatch

NoArgs == <<>>

\* The whole handling of one GET request against the list db: the first
\* matching route is taken, its parameters are validated, and its endpoint
\* is called.  An unmatched path is redirected (307) or not found (404); a
\* validation failure is answered 422 without calling the endpoint.
Outcome(req, db) ==
  LET i == FirstMatch(req.path) IN
  IF i = 0
  THEN IF RedirectsSlash(req.path)
       THEN [response |-> [status |-> 307, body |-> ToggleSlash(req.path)],
             invoked |-> "none", args |-> NoArgs, db |-> db]
       ELSE [response |-> [status |-> 404, body |-> "Not Found"],
             invoked |-> "none", args |-> NoArgs, db |-> db]
  ELSE
    LET endpoint == routes[i].endpoint
        params == MatchTemplate(routes[i].template, req.path).params
        errors == Errors(Sig(endpoint), params, req.query)
    IN  IF errors # {}
        THEN [response |-> [status |-> 422, body |-> errors],
              invoked |-> "none", args |-> NoArgs, db |-> db]
        ELSE LET a == Values(Sig(endpoint), params, req.query)
                 res == Call(endpoint, a, db)
             IN  [response |-> [status |-> 200, body |-> res.body],
                  invoked |-> endpoint, args |-> a, db |-> res.db]

\* -------------------------------------------------------------- requests

\* The segments a generated request path may hold at each position.
SegAt(i) ==
  CASE i = 1 -> {"users", "items", "item", "models", "file"}
    [] i = 2 -> {"me", "optional", "bool", "required", "5", "bob",
                 "Alfa", "Beta", "Gamma", "alfa"}
    [] i = 3 -> {"items", "5", "bob"}
    [] OTHER -> {"5", "bob"}

\* The paths of exactly n segments without a trailing slash.
RECURSIVE PathsOf(_)
PathsOf(n) ==
  IF n = 0 THEN {<<>>}
  ELSE {p \o <<"/", s>> : p \in PathsOf(n - 1), s \in SegAt(n)}

\* Every request path starts with "/"; a trailing slash is optional.
Paths ==
  {<<"/">>} \cup
  UNION {{p, Append(p, "/")} : p \in UNION {PathsOf(n) : n \in 1..MaxSegs}}

\* The texts a query parameter may carry.
QueryTexts(key) ==
  CASE key = "skip" -> {"-2", "-1", "0", "1", "3", "5", "x"}
    [] key = "limit" -> {"-1", "0", "1", "2", "10", "x"}
    [] key = "q" -> {"", "foo"}
    [] key = "needy" -> {"", "sure"}
    [] key = "short" -> {"true", "True", "TRUE", "tRuE", "1", "yes", "Yes",
                         "YES", "on", "On", "ON", "false", "False", "0",
                         "no", "maybe"}

AllQueryTexts ==
  UNION {QueryTexts(k) : k \in {"skip", "limit", "q", "needy", "short"}}

\* The query strings over a set of keys: each key is absent or carries one
\* of its texts.
QueriesOver(keys) ==
  UNION {{f \in [K -> AllQueryTexts] : \A k \in K : f[k] \in QueryTexts(k)} :
         K \in SUBSET keys}

\* Query parameters an endpoint does not declare are ignored, so a request
\* varies only the ones its route declares.
QueriesFor(path) ==
  IF FirstMatch(path) = 0 THEN {<<>>}
  ELSE QueriesOver(QueryKeys(routes[FirstMatch(path)].endpoint))

Requests ==
  UNION {{[path |-> p, query |-> q] : q \in QueriesFor(p)} : p \in Paths}

\* ----------------------------------------------------------- state machine

NoRequest == [path |-> <<>>, query |-> <<>>]

NoResponse == [status |-> 0, body |-> <<>>]

Init ==
  /\ fake_items_db = InitialDb
  /\ phase = "idle"
  /\ request = NoRequest
  /\ response = NoResponse
  /\ invoked = "none"
  /\ args = NoArgs

\* A client sends a GET request.
Receive ==
  /\ phase = "idle"
  /\ \E req \in Requests : request' = req
  /\ phase' = "pending"
  /\ response' = NoResponse
  /\ invoked' = "none"
  /\ args' = NoArgs
  /\ UNCHANGED fake_items_db

\* The application handles the pending request and answers it.
Serve ==
  /\ phase = "pending"
  /\ LET o == Outcome(request, fake_items_db)
     IN  /\ response' = o.response
         /\ invoked' = o.invoked
         /\ args' = o.args
         /\ fake_items_db' = o.db
  /\ phase' = "idle"
  /\ UNCHANGED request

Next == Receive \/ Serve

Spec == Init /\ [][Next]_vars

\* ============================================================ properties

\* The pending request has been answered.
Served == phase = "idle" /\ response.status # 0

\* The request path is /users/<s> for one segment s.
IsUsersSegment ==
  /\ Len(request.path) = 4
  /\ SubSeq(request.path, 1, 3) = <<"/", "users", "/">>
  /\ request.path[4] # "/"

IsModelsSegment ==
  /\ Len(request.path) = 4
  /\ SubSeq(request.path, 1, 3) = <<"/", "models", "/">>
  /\ request.path[4] # "/"

IsFilePath ==
  /\ Len(request.path) >= 4
  /\ SubSeq(request.path, 1, 3) = <<"/", "file", "/">>

IsRequiredItemPath ==
  /\ Len(request.path) = 7
  /\ SubSeq(request.path, 1, 5) = <<"/", "item", "/", "required", "/">>
  /\ request.path[6] # "/"
  /\ request.path[7] = "/"

IsBoolItemPath ==
  /\ Len(request.path) = 6
  /\ SubSeq(request.path, 1, 5) = <<"/", "items", "/", "bool", "/">>
  /\ request.path[6] # "/"

IsUserItemPath ==
  /\ Len(request.path) = 8
  /\ SubSeq(request.path, 1, 3) = <<"/", "users", "/">>
  /\ request.path[4] # "/"
  /\ SubSeq(request.path, 5, 7) = <<"/", "items", "/">>
  /\ request.path[8] # "/"

Has(key) == key \in DOMAIN request.query

\* C1: GET /users/me is always dispatched to read_current_user and answers
\* {"current user": "me"}; read_user is never called with user = "me"; every
\* other single-segment path /users/<s> is dispatched to read_user and
\* answers {"user": s}.
C1_UsersMeBeforeUser ==
  /\ (Served /\ request.path = <<"/", "users", "/", "me">>) =>
       /\ invoked = "read_current_user"
       /\ response.status = 200
       /\ response.body = ("current user" :> "me")
  /\ invoked = "read_user" => args["user"] # "me"
  /\ (Served /\ IsUsersSegment /\ request.path[4] # "me") =>
       /\ invoked = "read_user"
       /\ response.status = 200
       /\ response.body = ("user" :> request.path[4])

C1_Witness ==
  /\ Served
  /\ request.path = <<"/", "users", "/", "me">>
  /\ invoked = "read_current_user"

\* C2: GET /users is answered by the first-declared handler get_allUsers
\* with {"all users": "users"}; get_users is never invoked and its response
\* {"all users 2": "users"} is never produced.
C2_FirstUsersHandlerWins ==
  /\ invoked # "get_users"
  /\ (Served /\ request.path = <<"/", "users">>) =>
       /\ invoked = "get_allUsers"
       /\ response.status = 200
       /\ response.body = ("all users" :> "users")

C2_Witness ==
  /\ Served
  /\ request.path = <<"/", "users">>
  /\ invoked = "get_allUsers"

\* The message that names an enum member.
MessageNaming(member) ==
  CASE member = "alfa" -> "Alfa model"
    [] member = "beta" -> "Beta model"
    [] member = "gamma" -> "Gamma model"

\* C3: GET /models/{model_name} accepts exactly the three enum members, the
\* response's message names the member that was given (alfa: "Alfa model",
\* beta: "Beta model", gamma: "Gamma model"), and any other value is
\* rejected with a validation error.
C3_ModelMessageNamesMember ==
  (Served /\ IsModelsSegment) =>
    IF \E m \in ModelName : m.value = request.path[4]
    THEN /\ invoked = "get_model"
         /\ response.status = 200
         /\ response.body["message"] = MessageNaming(args["model_name"].name)
    ELSE response.status = 422

\* C4: GET /file/<p>, for any path p including ones with "/" separators,
\* matches the file route, invokes read_file and answers {"file_path": p}.
C4_FileRouteReachable ==
  (Served /\ IsFilePath) =>
    /\ invoked = "read_file"
    /\ response.status = 200
    /\ response.body = ("file_path" :> SubSeq(request.path, 4, Len(request.path)))

\* C5: GET /item/required/{item_id}/ without needy is never answered 200 and
\* never invokes read_required_item: it is answered 422; with needy supplied
\* and an integer item_id the answer is {"item": item_id, "needy": needy}.
C5_NeedyRequired ==
  /\ invoked = "read_required_item" => Has("needy")
  /\ (Served /\ IsRequiredItemPath /\ ~Has("needy")) =>
       /\ response.status = 422
       /\ invoked = "none"
       /\ "needy" \in response.body
  /\ (Served /\ IsRequiredItemPath /\ Has("needy") /\ IsIntText(request.path[6])) =>
       /\ invoked = "read_required_item"
       /\ response.status = 200
       /\ response.body =
            ("item" :> ParseInt(request.path[6])) @@ ("needy" :> request.query["needy"])

C5_Witness ==
  /\ Served
  /\ IsRequiredItemPath
  /\ ~Has("needy")
  /\ IsIntText(request.path[6])
  /\ response.status = 422

\* The spellings of true, 1, yes and on the requests carry.
TrueSpellings ==
  {"true", "True", "TRUE", "tRuE", "1", "yes", "Yes", "YES", "on", "On", "ON"}

\* The request reaches a handler that takes short, with valid path
\* parameters.
ReachesShortHandler ==
  \/ IsBoolItemPath
  \/ IsUserItemPath /\ IsIntText(request.path[4])

\* C6: read_bool_item and read_user_item see short = True for the query
\* values true, 1, yes and on in any letter case, and short = False for
\* short=false and for an absent short.
C6_ShortCoercion ==
  (Served /\ ReachesShortHandler) =>
    /\ (Has("short") /\ request.query["short"] \in TrueSpellings) =>
         /\ invoked \in {"read_bool_item", "read_user_item"}
         /\ args["short"] = TRUE
    /\ (~Has("short") \/ (Has("short") /\ request.query["short"] = "false")) =>
         /\ invoked \in {"read_bool_item", "read_user_item"}
         /\ args["short"] = FALSE

C6_Witness ==
  /\ Served
  /\ IsUserItemPath
  /\ Has("short")
  /\ request.query["short"] = "YES"
  /\ invoked = "read_user_item"
  /\ args["short"] = TRUE

\* The contiguous sub-sequence of the sample list that starts at index skip
\* (counted from 0) and holds at most limit items.
SampleFrom(skip, limit) ==
  [i \in 1..Min(limit, Max(Len(InitialDb) - skip, 0)) |-> InitialDb[skip + i]]

\* C7: GET /items/ with non-negative skip and limit returns the contiguous
\* sub-sequence of the sample list starting at index skip with at most limit
\* items, in order (empty when skip is at or past the end); omitted, skip
\* and limit default to 0 and 10 and the whole three-item list is returned.
C7_ItemsSlice ==
  (Served /\ request.path = <<"/", "items", "/">>) =>
    /\ (~Has("skip") /\ ~Has("limit")) =>
         /\ invoked = "read_item_L79"
         /\ args["skip"] = 0
         /\ args["limit"] = 10
         /\ response.status = 200
         /\ response.body = InitialDb
         /\ Len(response.body) = 3
    /\ invoked = "read_item_L79" =>
         /\ ~Has("skip") => args["skip"] = 0
         /\ ~Has("limit") => args["limit"] = 10
         /\ (args["skip"] >= 0 /\ args["limit"] >= 0) =>
              /\ response.status = 200
              /\ response.body = SampleFrom(args["skip"], args["limit"])
              /\ Len(response.body) <= args["limit"]
              /\ args["skip"] >= Len(InitialDb) => response.body = <<>>

C7_Witness ==
  /\ Served
  /\ invoked = "read_item_L79"
  /\ Has("skip")
  /\ Has("limit")
  /\ args["skip"] = 1
  /\ args["limit"] = 1
  /\ response.body = <<[item_name |-> "Bar"]>>

\* The index a skip denotes in the sample list, a negative skip counting
\* from its end.
StartOf(skip) ==
  IF skip < 0 THEN Max(Len(InitialDb) + skip, 0) ELSE Min(skip, Len(InitialDb))

\* The body is a run of the sample list that starts where skip points.
StartsAt(body, skip) ==
  /\ StartOf(skip) + Len(body) <= Len(InitialDb)
  /\ body = SubSeq(InitialDb, StartOf(skip) + 1, StartOf(skip) + Len(body))

C9_SampleDataImmutable ==
  /\ fake_items_db = InitialDb
  /\ Served => response = Outcome(request, InitialDb).response

C9_Witness ==
  /\ Served
  /\ invoked = "read_item_L79"
  /\ args["skip"] = -1
  /\ args["limit"] = -1
  /\ fake_items_db = InitialDb

\* C10: every response of /items/bool/{item_id} and of
\* /users/{user_id}/items/{item_id} has a field named description that says
\* short exactly when short is True and long exactly when short is False,
\* and has the field q exactly when a non-empty q was supplied.
C10_DescriptionField ==
  (Served /\ invoked \in {"read_bool_item", "read_user_item"}) =>
    /\ "description" \in DOMAIN response.body
    /\ args["short"] =>
         response.body["description"] = "The description of the item is short"
    /\ ~args["short"] =>
         response.body["description"] = "The description of the item is long"
    /\ "q" \in DOMAIN response.body <=> (Has("q") /\ request.query["q"] # "")

====
